---- MODULE Spec2Model ----
(***************************************************************************)
(* Buffer mutation engine, Position ordering and the two Editor            *)
(* realizations of abracadabra (InMemoryEditor, VSCodeEditor).             *)
(*                                                                         *)
(* Text is a sequence of one-character strings.  A Position is a record    *)
(* [line, character], both 0-based as in the source.  A code matrix is a   *)
(* sequence of lines, a line a sequence of elements, an element a text:    *)
(* line.split("") makes one-character elements, but splice(.., code)       *)
(* stores a whole replacement text as ONE element.                         *)
(***************************************************************************)
EXTENDS Integers, Sequences, FiniteSets, TLC

VARIABLES codeMatrix, selection, document, editorSelection, call, posA, posB, posResult,
          highlights, matching, message, pending, discovery,
          panel, panels, panelEvent

vars == <<codeMatrix, selection, document, editorSelection, call, posA, posB, posResult,
          highlights, matching, message, pending, discovery,
          panel, panels, panelEvent>>

\* The state of the webview panel of the VS Code editor.
panelVars == <<panel, panels, panelEvent>>

\* The state of the highlight registry, of the visitor matcher and of the
\* action provider, which the editor operations leave alone.
providerVars == <<matching, message, pending, discovery, panelVars>>

(***************************************************************************)
(* Bounds of the model.                                                    *)
(***************************************************************************)
MaxLen == 2
MaxCode == 2
MaxMods == 2
MaxCells == 2
MaxRepl == 1
MaxLine == 0
MaxChar == 1
MaxCoord == 2

(***************************************************************************)
(* Program constants.                                                      *)
(***************************************************************************)
LINE_SEPARATOR == "\n"
DELETED_LINE == <<"_","_","_","D","E","L","E","T","E","D","_","L","I","N","E","_","_","_">>
CURSOR == <<"[","c","u","r","s","o","r","]">>
SELECTION_START == <<"[","s","t","a","r","t","]">>
SELECTION_END == <<"[","e","n","d","]">>

(***************************************************************************)
(* JavaScript string and array primitives, as the code uses them.          *)
(***************************************************************************)
Min(x, y) == IF x < y THEN x ELSE y
Max(x, y) == IF x < y THEN y ELSE x

\* Array.prototype.slice(from, to) for from, to >= 0: indices are clamped.
slice(arr, from, to) ==
  SubSeq(arr, Min(from, Len(arr)) + 1, Min(to, Len(arr)))

\* Array.prototype.slice(from).
sliceFrom(arr, from) == slice(arr, from, Len(arr))

\* Array.prototype.splice(start, deleteCount, item): start is clamped to the
\* length, deleteCount to [0, length - start]; item is inserted as ONE element.
splice(arr, start, deleteCount, item) ==
  LET st == Min(start, Len(arr))
      dc == Max(0, Min(deleteCount, Len(arr) - st))
  IN SubSeq(arr, 1, st) \o <<item>> \o SubSeq(arr, st + dc + 1, Len(arr))

\* String.prototype.split(LINE_SEPARATOR).
RECURSIVE split(_)
split(text) ==
  IF \A i \in 1..Len(text) : text[i] # LINE_SEPARATOR
  THEN <<text>>
  ELSE LET k == CHOOSE i \in 1..Len(text) :
                  /\ text[i] = LINE_SEPARATOR
                  /\ \A j \in 1..(i - 1) : text[j] # LINE_SEPARATOR
       IN <<SubSeq(text, 1, k - 1)>> \o split(SubSeq(text, k + 1, Len(text)))

\* Array.prototype.join(LINE_SEPARATOR) on an array of texts.
RECURSIVE joinLines(_)
joinLines(lines) ==
  IF Len(lines) = 0 THEN <<>>
  ELSE IF Len(lines) = 1 THEN lines[1]
  ELSE lines[1] \o <<LINE_SEPARATOR>> \o joinLines(Tail(lines))

\* Array.prototype.join(CHARS_SEPARATOR): the elements of a line, concatenated.
RECURSIVE joinChars(_)
joinChars(line) ==
  IF Len(line) = 0 THEN <<>> ELSE line[1] \o joinChars(Tail(line))

\* String.prototype.indexOf(pattern): 0-based index of the first occurrence, or -1.
indexOf(line, pattern) ==
  LET occ == {i \in 0..(Len(line) - Len(pattern)) :
                SubSeq(line, i + 1, i + Len(pattern)) = pattern}
  IN IF occ = {} THEN -1 ELSE CHOOSE i \in occ : \A j \in occ : i <= j

\* String.prototype.replace(pattern, ""): removes the first occurrence only.
replace(line, pattern) ==
  LET i == indexOf(line, pattern)
  IN IF i = -1 THEN line
     ELSE SubSeq(line, 1, i) \o SubSeq(line, i + Len(pattern) + 1, Len(line))

\* line.split(CHARS_SEPARATOR): one element per character.
splitChars(line) == [i \in 1..Len(line) |-> <<line[i]>>]

(***************************************************************************)
(* Position (src/refactorings/position.ts).                                *)
(***************************************************************************)
Position(line, character) == [line |-> line, character |-> character]

isSameLineThan(p, q) == p.line = q.line

isEqualTo(p, q) == isSameLineThan(p, q) /\ p.character = q.character

\* Mutant: isBefore without its isEqualTo disjunct (a strict order).
isBeforeStrict(p, q) ==
  \/ p.line < q.line
  \/ (isSameLineThan(p, q) /\ p.character < q.character)

isBefore(p, q) ==
  \/ isEqualTo(p, q)
  \/ p.line < q.line
  \/ (isSameLineThan(p, q) /\ p.character < q.character)

isAfter(p, q) == isEqualTo(p, q) \/ ~isBefore(p, q)

(***************************************************************************)
(* Selection (the class is imported by the editors; its source file is     *)
(* not part of the sources at hand).                                       *)
(***************************************************************************)
Selection(start, end) == [start |-> start, end |-> end]

cursorAt(line, char) == Selection(Position(line, char), Position(line, char))

cursorAtPosition(position) == Selection(position, position)

startsBefore(s, t) == isBefore(s.start, t.start)

extendEndToStartOf(s, t) ==
  IF isBefore(t.start, s.end) THEN s ELSE Selection(s.start, t.start)

(***************************************************************************)
(* InMemoryEditor: matrix construction and serialization.                  *)
(***************************************************************************)
\* Mutant: the cursor marker is left in the code.
setCodeMatrixKeepingCursor(code) ==
  LET lines == split(code)
  IN [i \in 1..Len(lines) |->
        splitChars(replace(replace(lines[i], SELECTION_START), SELECTION_END))]

\* setCodeMatrix: split in lines, strip the first occurrence of each marker
\* from each line (cursor, then start, then end), split in characters.
setCodeMatrix(code) ==
  LET lines == split(code)
  IN [i \in 1..Len(lines) |->
        splitChars(replace(replace(replace(lines[i], CURSOR),
                                   SELECTION_START), SELECTION_END))]

\* read: join each line, drop the lines equal to DELETED_LINE, join the rest.
read(matrix) ==
  LET joined == [i \in 1..Len(matrix) |-> joinChars(matrix[i])]
  IN joinLines(SelectSeq(joined, LAMBDA l : l # DELETED_LINE))

code == read(codeMatrix)

(***************************************************************************)
(* InMemoryEditor.readThenWrite, step by step.                             *)
(***************************************************************************)
\* this.codeMatrix[line] is undefined (and .slice / .splice on it throws a
\* TypeError) when the matrix has no such line.
hasLine(matrix, line) == line >= 0 /\ line < Len(matrix)

\* Lines 108-126: the text handed to getModifications, or a TypeError.
readSelection(matrix, sel) ==
  LET start == sel.start
      end == sel.end
  IN IF start.line = end.line
     THEN IF ~hasLine(matrix, start.line)
          THEN [threw |-> TRUE, text |-> <<>>]
          ELSE [threw |-> FALSE,
                text |-> read(<<slice(matrix[start.line + 1],
                                      start.character, end.character)>>)]
     ELSE IF end.line > start.line
     THEN IF ~hasLine(matrix, start.line) \/ ~hasLine(matrix, end.line)
          THEN [threw |-> TRUE, text |-> <<>>]
          ELSE [threw |-> FALSE,
                text |-> read(<<sliceFrom(matrix[start.line + 1], start.character)>>
                              \o SubSeq(matrix, start.line + 2, end.line)
                              \o <<slice(matrix[end.line + 1], 0, end.character)>>)]
     ELSE [threw |-> FALSE, text |-> read(<<>>)]

\* Line 128: the comparator handed to Array.prototype.sort. It never returns 0.
compareModifications(a, b) ==
  IF startsBefore(a.selection, b.selection) THEN 1 ELSE -1

\* Array.prototype.sort with that comparator: a binary insertion sort (the
\* engine's algorithm for short arrays) puts each element, taken in the order
\* of the array, before the first already placed element it compares below.
insertModification(sorted, m) ==
  LET below == {i \in 1..Len(sorted) : compareModifications(m, sorted[i]) < 0}
      at == IF below = {} THEN Len(sorted) + 1
            ELSE CHOOSE i \in below : \A j \in below : i <= j
  IN SubSeq(sorted, 1, at - 1) \o <<m>> \o SubSeq(sorted, at, Len(sorted))

RECURSIVE insertAll(_, _)
insertAll(sorted, rest) ==
  IF Len(rest) = 0 THEN sorted
  ELSE insertAll(insertModification(sorted, rest[1]), Tail(rest))

sort(modifications) == insertAll(<<>>, modifications)

\* Lines 129-157: one Modification applied to the matrix in place. A TypeError
\* leaves the matrix as it is at the throwing statement.
applyModification(matrix, modification) ==
  LET start == modification.selection.start
      end == modification.selection.end
  IN IF start.line = end.line
     THEN IF ~hasLine(matrix, start.line)
          THEN [threw |-> TRUE, matrix |-> matrix]
          ELSE [threw |-> FALSE,
                matrix |-> [matrix EXCEPT ![start.line + 1] =
                              splice(@, start.character,
                                     end.character - start.character,
                                     modification.code)]]
     ELSE IF end.line > start.line
     THEN IF ~hasLine(matrix, start.line)
          THEN [threw |-> TRUE, matrix |-> matrix]
          ELSE LET replaced == [matrix EXCEPT ![start.line + 1] =
                                  splice(@, start.character,
                                         Len(@) - start.character,
                                         modification.code)]
               IN IF ~hasLine(replaced, end.line)
                  THEN [threw |-> TRUE, matrix |-> replaced]
                  ELSE LET merged == [replaced EXCEPT ![start.line + 1] =
                                        @ \o sliceFrom(replaced[end.line + 1],
                                                       end.character)]
                       IN [threw |-> FALSE,
                           matrix |-> [i \in 1..Len(merged) |->
                                         IF i - 1 >= start.line + 1 /\ i - 1 <= end.line
                                         THEN <<DELETED_LINE>>
                                         ELSE merged[i]]]
     ELSE [threw |-> FALSE, matrix |-> matrix]

\* forEach over the sorted Modifications; a TypeError ends the loop.
RECURSIVE applyAll(_, _)
applyAll(matrix, sorted) ==
  IF Len(sorted) = 0 THEN [threw |-> FALSE, matrix |-> matrix]
  ELSE LET r == applyModification(matrix, sorted[1])
       IN IF r.threw THEN r ELSE applyAll(r.matrix, Tail(sorted))

commit(matrix, modifications) == applyAll(matrix, sort(modifications))

\* InMemoryEditor.write (lines 88-94). NoPosition stands for an omitted
\* newCursorPosition.
NoPosition == [line |-> -1, character |-> -1]

inMemoryWrite(matrix, sel, text, newCursorPosition) ==
  [codeMatrix |-> setCodeMatrix(text),
   selection |-> IF newCursorPosition # NoPosition
                 THEN cursorAtPosition(newCursorPosition)
                 ELSE sel]

\* InMemoryEditor.readThenWrite (lines 100-160), the whole call. `returned` is
\* the outcome of getModifications: it throws, or returns Modifications. The
\* result holds
\* the editor's fields after the call, the text that was handed to
\* getModifications, the selection the editor had at that moment, and where
\* the call threw ("" when it did not).
Throws == [throws |-> TRUE, modifications |-> <<>>]

Returns(modifications) == [throws |-> FALSE, modifications |-> modifications]

\* Mutant: the selected text is cut out of the matrix when it is read (splice
\* where lines 113-123 use slice).
inMemoryReadThenWriteCutting(matrix, sel, selectionArg, returned, newCursorPosition) ==
  LET moved == IF newCursorPosition # NoPosition
               THEN cursorAtPosition(newCursorPosition)
               ELSE sel
      r == readSelection(matrix, selectionArg)
      cut == applyModification(matrix, [code |-> <<>>, selection |-> selectionArg]).matrix
  IN IF r.threw
     THEN [codeMatrix |-> matrix, selection |-> moved,
           readCode |-> <<>>, atInvoke |-> moved, threw |-> "read"]
     ELSE IF returned.throws
     THEN [codeMatrix |-> cut, selection |-> moved,
           readCode |-> r.text, atInvoke |-> moved, threw |-> "compute"]
     ELSE LET c == commit(cut, returned.modifications)
          IN [codeMatrix |-> c.matrix, selection |-> moved,
              readCode |-> r.text, atInvoke |-> moved,
              threw |-> IF c.threw THEN "commit" ELSE ""]

inMemoryReadThenWrite(matrix, sel, selectionArg, returned, newCursorPosition) ==
  LET moved == IF newCursorPosition # NoPosition
               THEN cursorAtPosition(newCursorPosition)
               ELSE sel
      r == readSelection(matrix, selectionArg)
  IN IF r.threw
     THEN [codeMatrix |-> matrix, selection |-> moved,
           readCode |-> <<>>, atInvoke |-> moved, threw |-> "read"]
     ELSE IF returned.throws
     THEN [codeMatrix |-> matrix, selection |-> moved,
           readCode |-> r.text, atInvoke |-> moved, threw |-> "compute"]
     ELSE LET c == commit(matrix, returned.modifications)
          IN [codeMatrix |-> c.matrix, selection |-> moved,
              readCode |-> r.text, atInvoke |-> moved,
              threw |-> IF c.threw THEN "commit" ELSE ""]

\* InMemoryEditor.removeLine (lines 273-275): splice(line, 1) on the matrix.
removeLine(matrix, line) ==
  SubSeq(matrix, 1, Min(line, Len(matrix)))
    \o SubSeq(matrix, Min(line, Len(matrix)) + 2, Len(matrix))

\* InMemoryEditor.moveCursorTo (lines 181-183).
moveCursorTo(position) == cursorAtPosition(position)

\* Mutant: the [end] marker sets the end of the selection without looking at
\* where the selection starts.
selectionStepUnguarded(sel, line, lineIndex) ==
  LET cursorChar == indexOf(line, CURSOR)
      s1 == IF cursorChar > -1 THEN cursorAt(lineIndex, cursorChar) ELSE sel
      line1 == replace(line, CURSOR)
      startChar == indexOf(line1, SELECTION_START)
      s2 == IF startChar > -1 THEN cursorAt(lineIndex, startChar) ELSE s1
      line2 == replace(line1, SELECTION_START)
      endChar == indexOf(line2, SELECTION_END)
  IN IF endChar > -1
     THEN Selection(s2.start, Position(lineIndex, endChar))
     ELSE s2

\* InMemoryEditor.setSelectionFromCursor (lines 194-225): the reduce over the
\* lines of the fixture, one step of it per line.
selectionStep(sel, line, lineIndex) ==
  LET cursorChar == indexOf(line, CURSOR)
      s1 == IF cursorChar > -1 THEN cursorAt(lineIndex, cursorChar) ELSE sel
      line1 == replace(line, CURSOR)
      startChar == indexOf(line1, SELECTION_START)
      s2 == IF startChar > -1 THEN cursorAt(lineIndex, startChar) ELSE s1
      line2 == replace(line1, SELECTION_START)
      endChar == indexOf(line2, SELECTION_END)
  IN IF endChar > -1
     THEN extendEndToStartOf(s2, cursorAt(lineIndex, endChar))
     ELSE s2

RECURSIVE reduceLines(_, _, _)
reduceLines(sel, lines, lineIndex) ==
  IF Len(lines) = 0 THEN sel
  ELSE reduceLines(selectionStep(sel, lines[1], lineIndex), Tail(lines), lineIndex + 1)

setSelectionFromCursor(text, defaultSelection) ==
  reduceLines(defaultSelection, split(text), 0)

\* new InMemoryEditor(code, position) (lines 56-59).
newInMemoryEditor(text, position) ==
  [codeMatrix |-> setCodeMatrix(text),
   selection |-> setSelectionFromCursor(text, cursorAtPosition(position))]

(***************************************************************************)
(* Reference semantics of a buffer as one string: offsets, substrings and  *)
(* direct splicing in document order.  These are what the claims compare   *)
(* the editors with.                                                       *)
(***************************************************************************)
RECURSIVE lineOffset(_, _)
lineOffset(lines, line) ==
  IF line = 0 THEN 0 ELSE Len(lines[1]) + 1 + lineOffset(Tail(lines), line - 1)

offsetOf(text, position) == lineOffset(split(text), position.line) + position.character

\* The Position of the k-th character boundary of the text (k = 0..Len).
positionAt(text, k) ==
  LET separators == {i \in 1..k : text[i] = LINE_SEPARATOR}
      lastOne == IF separators = {} THEN 0
                 ELSE CHOOSE i \in separators : \A j \in separators : j <= i
  IN Position(Cardinality(separators), k - lastOne)

\* The ranges of the text, as pairs of character boundaries.
rangesOf(text) == {r \in (0..Len(text)) \X (0..Len(text)) : r[1] <= r[2]}

selectionOfRange(text, r) == Selection(positionAt(text, r[1]), positionAt(text, r[2]))

\* Every in-bounds Selection of the text with start not after end.
selectionsOf(text) == {selectionOfRange(text, r) : r \in rangesOf(text)}

substring(text, sel) ==
  SubSeq(text, offsetOf(text, sel.start) + 1, offsetOf(text, sel.end))

inDocumentOrder(text, s, t) ==
  \/ offsetOf(text, s.start) < offsetOf(text, t.start)
  \/ /\ offsetOf(text, s.start) = offsetOf(text, t.start)
     /\ offsetOf(text, s.end) <= offsetOf(text, t.end)

\* The Modifications, a set with pairwise distinct non-overlapping ranges,
\* spliced into the text: the last one in document order first, so that the
\* offsets of the others still hold.
RECURSIVE spliceAll(_, _, _)
spliceAll(original, text, modifications) ==
  IF modifications = {} THEN text
  ELSE LET last == CHOOSE m \in modifications :
                     \A n \in modifications :
                       inDocumentOrder(original, n.selection, m.selection)
           from == offsetOf(original, last.selection.start)
           to == offsetOf(original, last.selection.end)
       IN spliceAll(original,
                    SubSeq(text, 1, from) \o last.code
                      \o SubSeq(text, to + 1, Len(text)),
                    modifications \ {last})

spliced(text, modifications) ==
  spliceAll(text, text, {modifications[i] : i \in 1..Len(modifications)})

(***************************************************************************)
(* VSCodeEditor (src/editor/adapters/vscode-editor.ts).  The host keeps    *)
(* the document as one text; document.getText(range) and applyEdit are     *)
(* the host's, taken here as the substring and the splice of the edits in  *)
(* the coordinates of the document before the edit.  The adapter is the    *)
(* only writer of editor.selection in the model.                           *)
(***************************************************************************)
\* VSCodeEditor.write (lines 65-89).
vscodeWrite(doc, editorSel, text, newCursorPosition) ==
  LET cursorAtInitialStartPosition == Selection(editorSel.start, editorSel.start)
  IN [document |-> text,
      editorSelection |-> IF newCursorPosition # NoPosition
                          THEN cursorAtPosition(newCursorPosition)
                          ELSE cursorAtInitialStartPosition]

\* Mutant: without newCursorPosition the cursor is put at the start of the
\* selection the editor had, as write does.
vscodeReadThenWriteCollapsing(doc, editorSel, selectionArg, returned, newCursorPosition) ==
  LET readCode == substring(doc, selectionArg)
  IN IF returned.throws
     THEN [document |-> doc, editorSelection |-> editorSel, readCode |-> readCode,
           atInvoke |-> editorSel, threw |-> "compute"]
     ELSE [document |-> spliced(doc, returned.modifications),
           editorSelection |-> IF newCursorPosition # NoPosition
                               THEN cursorAtPosition(newCursorPosition)
                               ELSE Selection(editorSel.start, editorSel.start),
           readCode |-> readCode, atInvoke |-> editorSel, threw |-> ""]

\* VSCodeEditor.readThenWrite (lines 131-161).
vscodeReadThenWrite(doc, editorSel, selectionArg, returned, newCursorPosition) ==
  LET readCode == substring(doc, selectionArg)
  IN IF returned.throws
     THEN [document |-> doc, editorSelection |-> editorSel, readCode |-> readCode,
           atInvoke |-> editorSel, threw |-> "compute"]
     ELSE [document |-> spliced(doc, returned.modifications),
           editorSelection |-> IF newCursorPosition # NoPosition
                               THEN cursorAtPosition(newCursorPosition)
                               ELSE editorSel,
           readCode |-> readCode, atInvoke |-> editorSel, threw |-> ""]

\* VSCodeEditor.moveCursorTo (lines 187-190).
vscodeMoveCursorTo(position) == cursorAtPosition(position)

(***************************************************************************)
(* Inputs of the calls, drawn from bounded sets.                           *)
(***************************************************************************)
textsOver(alphabet, n) == UNION {[1..k -> alphabet] : k \in 0..n}

RECURSIVE concat(_)
concat(parts) == IF Len(parts) = 0 THEN <<>> ELSE parts[1] \o concat(Tail(parts))

\* Fixture texts: up to MaxLen pieces, each a character or a marker.
FixtureTokens == {<<"a">>, <<LINE_SEPARATOR>>, CURSOR, SELECTION_START, SELECTION_END}

Fixtures == {concat(parts) : parts \in textsOver(FixtureTokens, MaxLen)}

\* Plain texts, without markers.
PlainTexts == textsOver({"a", LINE_SEPARATOR}, MaxLen)

\* Replacement texts of a Modification.
Replacements == textsOver({"b", LINE_SEPARATOR}, MaxRepl)

CursorPositions == {Position(l, c) : l \in 0..MaxLine, c \in 0..MaxChar}

\* What getModifications may return: up to MaxMods Modifications with in-bounds,
\* pairwise distinct and non-overlapping ranges, in any order.
rangeSeqs(text) ==
  {rs \in textsOver(rangesOf(text), MaxMods) :
     \A i, j \in 1..Len(rs) :
       i < j => /\ rs[i] # rs[j]
                /\ (rs[i][2] <= rs[j][1] \/ rs[j][2] <= rs[i][1])}

modificationSeqs(text) ==
  UNION {{[i \in 1..Len(rs) |->
             [code |-> codes[i], selection |-> selectionOfRange(text, rs[i])]] :
            codes \in [1..Len(rs) -> Replacements]} : rs \in rangeSeqs(text)}

computeOutcomes(text) ==
  {Throws} \cup {Returns(seq) : seq \in modificationSeqs(text)}

\* The (selection, outcome of getModifications, newCursorPosition) triples of
\* a readThenWrite call: any selection and cursor with a getModifications that
\* throws or returns nothing, and the selection of the whole text with any
\* outcome.
wholeText(text) == selectionOfRange(text, <<0, Len(text)>>)

readThenWriteInputs(text) ==
  (selectionsOf(text) \X {Throws, Returns(<<>>)} \X {NoPosition, Position(0, 1)})
    \cup ({wholeText(text)} \X computeOutcomes(text) \X {NoPosition})

(***************************************************************************)
(* The record of the call in progress: what it was given, what the editors *)
(* held before it, and what it observed.  Settle drops it when the         *)
(* returned promise resolves and the caller goes on.                       *)
(***************************************************************************)
NoCall ==
  [op |-> "none", text |-> <<>>, selectionArg |-> cursorAt(0, 0), returned |-> Returns(<<>>),
   newCursorPosition |-> NoPosition, line |-> 0,
   preCodeMatrix |-> <<>>, preCode |-> <<>>, preSelection |-> cursorAt(0, 0),
   preDocument |-> <<>>, preEditorSelection |-> cursorAt(0, 0),
   readCode |-> <<>>, atInvoke |-> cursorAt(0, 0), threw |-> "",
   vsReadCode |-> <<>>, vsAtInvoke |-> cursorAt(0, 0), vsThrew |-> ""]

before(op) ==
  [NoCall EXCEPT !.op = op, !.preCodeMatrix = codeMatrix, !.preCode = code,
                 !.preSelection = selection,
                 !.preDocument = document, !.preEditorSelection = editorSelection]

idle == call.op = "none"

NoResult == [done |-> FALSE, aBeforeB |-> FALSE, equal |-> FALSE, bBeforeA |-> FALSE]

posIdle == /\ posA = Position(0, 0) /\ posB = Position(0, 0) /\ posResult = NoResult

(***************************************************************************)
(* Highlights of InMemoryEditor.  The Map of highlights is keyed by the    *)
(* Selection objects themselves: it is the sequence of its entries in      *)
(* insertion order, each with the array (group) it was registered in.      *)
(***************************************************************************)
\* Line 279: the field is never assigned by the editor.
nextHighlightColorIndex == 0

digit(n) == <<"0", "1", "2", "3", "4", "5", "6", "7", "8", "9">>[n + 1]

\* `[h${index}]` and `[/h${index}]`
openMarker(index) == <<"[", "h", digit(index), "]">>

closeMarker(index) == <<"[", "/", "h", digit(index), "]">>

Highlight(sel, index, group) == [selection |-> sel, index |-> index, group |-> group]

\* InMemoryEditor.highlight (lines 281-286).
highlight(entries, selections, group) ==
  entries \o [i \in 1..Len(selections) |->
                Highlight(selections[i], nextHighlightColorIndex + 1, group)]

\* InMemoryEditor.removeHighlight (lines 288-291).
removeHighlight(entries, group) == SelectSeq(entries, LAMBDA e : e.group # group)

\* Array.prototype.find: the first entry that starts (lines 246-248) or ends
\* (lines 255-257) at the character, as a sequence of one entry or of none.
findStart(entries, charIndex) ==
  LET hits == {i \in 1..Len(entries) : entries[i].selection.start.character = charIndex}
  IN IF hits = {} THEN <<>> ELSE <<entries[CHOOSE i \in hits : \A j \in hits : i <= j]>>

findEnd(entries, charIndex) ==
  LET hits == {i \in 1..Len(entries) : entries[i].selection.end.character = charIndex}
  IN IF hits = {} THEN <<>> ELSE <<entries[CHOOSE i \in hits : \A j \in hits : i <= j]>>

\* Lines 237-266: the flatMap over the elements of one line.
highlightLine(entries, line, lineIndex) ==
  LET startSelections == SelectSeq(entries, LAMBDA e : e.selection.start.line = lineIndex)
      endSelections == SelectSeq(entries, LAMBDA e : e.selection.end.line = lineIndex)
      flat(charIndex) ==
        LET start == findStart(startSelections, charIndex)
            end == findEnd(endSelections, charIndex)
        IN IF start # <<>> THEN <<openMarker(start[1].index), line[charIndex + 1]>>
           ELSE IF end # <<>> THEN <<closeMarker(end[1].index), line[charIndex + 1]>>
           ELSE <<line[charIndex + 1]>>
  IN concat([i \in 1..Len(line) |-> flat(i - 1)])

\* InMemoryEditor.highlightCodeMatrix (lines 234-267).
highlightCodeMatrix(matrix, entries) ==
  [l \in 1..Len(matrix) |-> highlightLine(entries, matrix[l], l - 1)]

\* InMemoryEditor.highlightedCode (lines 69-71).
highlightedCode == read(highlightCodeMatrix(codeMatrix, highlights))

(***************************************************************************)
(* VSCodeEditor.askForPositions and the webview panel it keeps in the      *)
(* static field VSCodeEditor.panel.  Panels are numbered in the order of   *)
(* their creation; `panel` is 0 for null.  A panel is "none" before it is  *)
(* created, then "open", then "disposed"; `confirming` says that a message *)
(* callback of the panel is awaiting onConfirm, `callback` that the host   *)
(* has yet to call the panel's onDidDispose listener.                      *)
(***************************************************************************)
MaxPanels == 3

PanelIds == 1..MaxPanels

NoPanel == [state |-> "none", confirming |-> FALSE, callback |-> FALSE]

Panels(current, all) == [panel |-> current, panels |-> all]

\* The panels created so far.
created(all) == {p \in PanelIds : all[p].state # "none"}

\* panel.dispose(): nothing on a disposed panel; otherwise the panel is
\* disposed and the host calls the onDidDispose listener (lines 260-262),
\* during the call or, when `deferred`, at a later moment.
dispose(s, p, deferred) ==
  IF s.panels[p].state # "open" THEN s
  ELSE IF deferred
  THEN Panels(s.panel, [s.panels EXCEPT ![p].state = "disposed", ![p].callback = TRUE])
  ELSE Panels(0, [s.panels EXCEPT ![p].state = "disposed"])

\* VSCodeEditor.askForPositions (lines 214-263): no await, the call runs
\* to its end.
askForPositions(s, deferred) ==
  LET disposed == IF s.panel # 0 THEN dispose(s, s.panel, deferred) ELSE s
      id == Cardinality(created(s.panels)) + 1
  IN Panels(id, [disposed.panels EXCEPT ![id].state = "open"])

\* The message callback up to its await (lines 236-253).
onDidReceiveMessage(s, p) == Panels(s.panel, [s.panels EXCEPT ![p].confirming = TRUE])

\* The message callback after onConfirm has resolved (lines 254-255).
afterConfirm(s, p, deferred) ==
  LET disposed == IF s.panel # 0 THEN dispose(s, s.panel, deferred) ELSE s
  IN Panels(0, [disposed.panels EXCEPT ![p].confirming = FALSE])

\* The onDidDispose listener (lines 260-262), called later by the host.
onDidDispose(s, p) == Panels(0, [s.panels EXCEPT ![p].callback = FALSE])

\* What the last step did: which panel's callback ran, which panel it
\* disposed and which panel VSCodeEditor.panel referred to when it was set
\* to null (0 for none).
PanelEvent(op, handler, disposed, cleared) ==
  [op |-> op, handler |-> handler, disposed |-> disposed, cleared |-> cleared]

NoPanelEvent == PanelEvent("none", 0, 0, 0)

panelIdle ==
  /\ panel = 0
  /\ panels = [p \in PanelIds |-> NoPanel]
  /\ panelEvent = NoPanelEvent

(***************************************************************************)
(* Visitor matcher of RefactoringActionProvider.                           *)
(*                                                                         *)
(* A visitor is the sequence of its own properties in declaration order    *)
(* (the order of Object.keys).  A property value is a function, an object  *)
(* with members, or something else; `does` is what a function does when it *)
(* is called: "claim" (it calls the completion callback), "pass" or        *)
(* "throw".                                                                *)
(***************************************************************************)
Member(name, kind, does) == [name |-> name, kind |-> kind, does |-> does]

Value(kind, does, members) == [kind |-> kind, does |-> does, members |-> members]

Function(does) == Value("function", does, <<>>)

Object(members) == Value("object", "", members)

\* A truthy value that is neither a function nor an object, e.g. 1.
Number == Value("number", "", <<>>)

\* What visitor[key] gives for a key the visitor has not, or has as undefined.
Undefined == Value("undefined", "", <<>>)

Entry(key, value) == [key |-> key, value |-> value]

\* visitor[key]
lookup(visitor, key) ==
  IF \E i \in 1..Len(visitor) : visitor[i].key = key
  THEN visitor[CHOOSE i \in 1..Len(visitor) : visitor[i].key = key].value
  ELSE Undefined

\* JavaScript truthiness of a property value.
truthy(value) == value.kind \in {"function", "object", "number"}

\* The node types of the model and the categories each belongs to.
NodeTypes == {"Identifier", "ArrowFunctionExpression", "Program"}

aliasesOf(nodeType) ==
  CASE nodeType = "Identifier" -> {"Expression"}
    [] nodeType = "ArrowFunctionExpression" -> {"Expression", "Function"}
    [] OTHER -> {}

\* t.isType(nodeType, targetType): the type itself, or a category holding it.
isType(nodeType, targetType) ==
  \/ nodeType = targetType
  \/ targetType \in aliasesOf(nodeType)

\* Lines 132-133: Object.keys(visitor).find((type) => t.isType(nodeType, type)),
\* "" standing for undefined.
matchingType(visitor, nodeType) ==
  LET hits == {i \in 1..Len(visitor) : isType(nodeType, visitor[i].key)}
  IN IF hits = {} THEN ""
     ELSE visitor[CHOOSE i \in hits : \A j \in hits : i <= j].key

\* Mutant: the category keys are scanned before the node's own type is tried.
getVisitorNodeCategoryFirst(visitor, nodeType) ==
  LET hits == {i \in 1..Len(visitor) : visitor[i].key \in aliasesOf(nodeType)}
  IN IF hits # {}
     THEN LET k == visitor[CHOOSE i \in hits : \A j \in hits : i <= j].key
          IN [key |-> k, value |-> lookup(visitor, k)]
     ELSE IF truthy(lookup(visitor, nodeType))
     THEN [key |-> nodeType, value |-> lookup(visitor, nodeType)]
     ELSE [key |-> "", value |-> Undefined]

\* RefactoringActionProvider.getVisitorNode (lines 125-135): the resolved
\* entry, with the key it was found under ("" when it is null).
getVisitorNode(visitor, nodeType) ==
  IF truthy(lookup(visitor, nodeType))
  THEN [key |-> nodeType, value |-> lookup(visitor, nodeType)]
  ELSE IF matchingType(visitor, nodeType) # ""
  THEN [key |-> matchingType(visitor, nodeType),
        value |-> lookup(visitor, matchingType(visitor, nodeType))]
  ELSE [key |-> "", value |-> Undefined]

Invocation(key, member, does) == [key |-> key, member |-> member, does |-> does]

\* Lines 117-121: every function-valued member of an object entry, in the
\* order of Object.values.
RECURSIVE methodsOf(_, _)
methodsOf(key, members) ==
  IF Len(members) = 0 THEN <<>>
  ELSE (IF members[1].kind = "function"
        THEN <<Invocation(key, members[1].name, members[1].does)>>
        ELSE <<>>) \o methodsOf(key, Tail(members))

\* Mutant: visit without the call of the visitor's own enter.
visitWithoutEnter(visitor, nodeType) ==
  LET visitorNode == getVisitorNode(visitor, nodeType)
  IN IF visitorNode.value.kind = "function"
     THEN <<Invocation(visitorNode.key, "", visitorNode.value.does)>>
     ELSE IF visitorNode.value.kind = "object"
     THEN methodsOf(visitorNode.key, visitorNode.value.members)
     ELSE <<>>

\* RefactoringActionProvider.visit (lines 105-123): the callbacks it calls on
\* a node, in order.
visit(visitor, nodeType) ==
  LET visitorNode == getVisitorNode(visitor, nodeType)
  IN (IF lookup(visitor, "enter").kind = "function"
      THEN <<Invocation("enter", "", lookup(visitor, "enter").does)>>
      ELSE <<>>)
     \o (IF visitorNode.value.kind = "function"
         THEN <<Invocation(visitorNode.key, "", visitorNode.value.does)>>
         ELSE IF visitorNode.value.kind = "object"
         THEN methodsOf(visitorNode.key, visitorNode.value.members)
         ELSE <<>>)

(***************************************************************************)
(* Refactoring discovery of RefactoringActionProvider.                     *)
(*                                                                         *)
(* The descriptors handed to the constructor are shared by every call.     *)
(* `message` maps a command key to the label of its action provider: the   *)
(* text, and whether it was computed by updateMessage during the call that *)
(* is running (a history field: the code stores the text only).            *)
(***************************************************************************)
Refactoring(key, hasUpdateMessage, isPreferred) ==
  [key |-> key, hasUpdateMessage |-> hasUpdateMessage, isPreferred |-> isPreferred]

\* this.refactorings (line 19): one descriptor with updateMessage, one without.
refactorings == <<Refactoring("k1", TRUE, FALSE), Refactoring("k2", FALSE, TRUE)>>

Keys == {refactorings[i].key : i \in 1..Len(refactorings)}

Label(text, current) == [text |-> text, current |-> current]

\* The labels the descriptors are created with.
InitialMessage == [k \in Keys |-> Label("static", FALSE)]

\* actionProvider.updateMessage(visitedPath): a label made from the node.
updateMessage(nodeType) == Label(nodeType, TRUE)

\* History only: when a call starts to run, the labels it finds were computed
\* by other calls.
stale(msgs) == [k \in Keys |-> Label(msgs[k].text, FALSE)]

\* The state of one findApplicableRefactorings run: the keys of the Map in
\* insertion order, the labels, and whether a callback has thrown.
Run(applicable, msgs, threw) == [applicable |-> applicable, message |-> msgs, threw |-> threw]

has(seq, x) == \E i \in 1..Len(seq) : seq[i] = x

\* Mutant: the completion callback records the refactoring and leaves the
\* label as it is.
onMatchKeepingLabel(run, refactoring, nodeType) ==
  Run(IF has(run.applicable, refactoring.key) THEN run.applicable
      ELSE Append(run.applicable, refactoring.key),
      run.message, run.threw)

\* Mutant: the completion callback appends to a list instead of setting a
\* key of a Map.
onMatchAppending(run, refactoring, nodeType) ==
  Run(Append(run.applicable, refactoring.key),
      IF refactoring.hasUpdateMessage
      THEN [run.message EXCEPT ![refactoring.key] = updateMessage(nodeType)]
      ELSE run.message,
      run.threw)

\* The completion callback (lines 86-93).  Map.set on a key the Map already
\* has keeps the key's place.
onMatch(run, refactoring, nodeType) ==
  Run(IF has(run.applicable, refactoring.key) THEN run.applicable
      ELSE Append(run.applicable, refactoring.key),
      IF refactoring.hasUpdateMessage
      THEN [run.message EXCEPT ![refactoring.key] = updateMessage(nodeType)]
      ELSE run.message,
      run.threw)

\* The callbacks visit() calls on one node for one refactoring, run in order;
\* a callback that throws ends the run.
RECURSIVE invoke(_, _, _, _)
invoke(run, refactoring, nodeType, invocations) ==
  IF run.threw \/ Len(invocations) = 0 THEN run
  ELSE invoke(CASE invocations[1].does = "claim" -> onMatch(run, refactoring, nodeType)
                [] invocations[1].does = "throw" -> [run EXCEPT !.threw = TRUE]
                [] OTHER -> run,
              refactoring, nodeType, Tail(invocations))

\* Lines 78-98: refactoringsToCheck.forEach on one node.
RECURSIVE forEachRefactoring(_, _, _, _)
forEachRefactoring(run, toCheck, nodeType, visitors) ==
  IF run.threw \/ Len(toCheck) = 0 THEN run
  ELSE forEachRefactoring(
         invoke(run, toCheck[1], nodeType, visit(visitors[toCheck[1].key], nodeType)),
         Tail(toCheck), nodeType, visitors)

\* Lines 69-100: t.traverseAST with the enter callback, on the nodes in
\* traversal order.
RECURSIVE traverseAST(_, _, _, _)
traverseAST(run, ast, toCheck, visitors) ==
  IF run.threw \/ Len(ast) = 0 THEN run
  ELSE traverseAST(forEachRefactoring(run, toCheck, ast[1], visitors),
                   Tail(ast), toCheck, visitors)

\* Lines 65-67: the refactorings shouldShowInQuickFix lets through.
refactoringsToCheck(enabled) == SelectSeq(refactorings, LAMBDA r : r.key \in enabled)

\* Mutant: a refactoring whose label was already recomputed is not checked.
findApplicableRefactoringsOnce(input, msgs) ==
  IF ~input.parses THEN Run(<<>>, msgs, TRUE)
  ELSE traverseAST(Run(<<>>, msgs, FALSE), input.ast,
                   SelectSeq(refactoringsToCheck(input.enabled),
                             LAMBDA r : msgs[r.key].text = "static"),
                   input.visitors)

\* RefactoringActionProvider.findApplicableRefactorings (lines 59-103).
\* t.parse throws when the code does not parse.
findApplicableRefactorings(input, msgs) ==
  IF ~input.parses THEN Run(<<>>, msgs, TRUE)
  ELSE traverseAST(Run(<<>>, msgs, FALSE), input.ast,
                   refactoringsToCheck(input.enabled), input.visitors)

refactoringOf(key) == refactorings[CHOOSE i \in 1..Len(refactorings) : refactorings[i].key = key]

\* RefactoringActionProvider.buildCodeActionFor (lines 137-150).
buildCodeActionFor(refactoring, msgs) ==
  [title |-> msgs[refactoring.key],
   isPreferred |-> refactoring.isPreferred,
   command |-> refactoring.key]

\* Line 32: the map of the applicable refactorings to their code actions.
actionsFor(run) ==
  IF run.applicable = <<>> THEN <<>>
  ELSE [i \in 1..Len(run.applicable) |->
          buildCodeActionFor(refactoringOf(run.applicable[i]), run.message)]

Outcome(rejected, actions, applicable, threw, msgs) ==
  [rejected |-> rejected, actions |-> actions, applicable |-> applicable,
   threw |-> threw, message |-> msgs]

\* Mutant: the code is parsed before the try block is entered.
provideCodeActionsParsingFirst(input, msgs) ==
  IF ~input.readable THEN Outcome(TRUE, <<>>, <<>>, FALSE, msgs)
  ELSE IF input.ignored \/ ~input.hasEditor THEN Outcome(FALSE, <<>>, <<>>, FALSE, msgs)
  ELSE IF ~input.parses THEN Outcome(TRUE, <<>>, <<>>, TRUE, msgs)
  ELSE LET run == findApplicableRefactorings(input, msgs)
       IN IF run.threw THEN Outcome(FALSE, <<>>, <<>>, TRUE, run.message)
          ELSE Outcome(FALSE, actionsFor(run), run.applicable, FALSE, run.message)

\* RefactoringActionProvider.provideCodeActions (lines 21-39), from the
\* moment isNavigatingAnIgnoredFile settles: the promise is rejected when
\* the file cannot be read, and everything after the await is synchronous.
provideCodeActions(input, msgs) ==
  IF ~input.readable THEN Outcome(TRUE, <<>>, <<>>, FALSE, msgs)
  ELSE IF input.ignored \/ ~input.hasEditor THEN Outcome(FALSE, <<>>, <<>>, FALSE, msgs)
  ELSE LET run == findApplicableRefactorings(input, msgs)
       IN IF run.threw THEN Outcome(FALSE, <<>>, <<>>, TRUE, run.message)
          ELSE Outcome(FALSE, actionsFor(run), run.applicable, FALSE, run.message)

(***************************************************************************)
(* Inputs and history of the matcher and of the action provider.           *)
(***************************************************************************)
MaxKeys == 2
MaxNodes == 2
MaxPending == 2

VisitorKeys == {"Identifier", "ArrowFunctionExpression", "Expression", "Function", "enter"}

EntryValues ==
  {Function("pass"),
   Object(<<Member("enter", "function", "pass"), Member("exit", "function", "pass")>>),
   Object(<<Member("enter", "other", "")>>),
   Number,
   Undefined}

\* The visitors of at most MaxKeys properties, every order of declaration.
Visitors ==
  {v \in UNION {[1..n -> {Entry(k, x) : k \in VisitorKeys, x \in EntryValues}] : n \in 0..MaxKeys} :
     \A i, j \in 1..Len(v) : i # j => v[i].key # v[j].key}

NoMatching ==
  [visitor |-> <<>>, nodeType |-> "Program", visited |-> FALSE,
   resolved |-> [key |-> "", value |-> Undefined], invoked |-> <<>>]

\* The visitors createVisitor returns in the model: one that claims nothing,
\* one keyed by a node type, one keyed by a category, one that throws, and
\* one whose entry has an enter and an exit that both claim.
CandidateVisitors ==
  {<<>>,
   <<Entry("Identifier", Function("claim"))>>,
   <<Entry("Expression", Function("claim"))>>,
   <<Entry("ArrowFunctionExpression", Function("throw"))>>,
   <<Entry("Identifier", Object(<<Member("enter", "function", "claim"),
                                  Member("exit", "function", "claim")>>))>>}

Asts == UNION {[1..n -> {"Identifier", "ArrowFunctionExpression"}] : n \in 0..MaxNodes}

Input(readable, ignored, hasEditor, parses, ast, enabled, visitors) ==
  [readable |-> readable, ignored |-> ignored, hasEditor |-> hasEditor, parses |-> parses,
   ast |-> ast, enabled |-> enabled, visitors |-> visitors]

NoVisitors == [k \in Keys |-> <<>>]

\* What a provideCodeActions call finds when it goes on after its await: a
\* file it cannot read, an ignored file, no active editor, code that does
\* not parse, or a tree to traverse with the visitors of the candidates.
Inputs ==
  {Input(FALSE, FALSE, TRUE, TRUE, <<>>, Keys, NoVisitors),
   Input(TRUE, TRUE, TRUE, TRUE, <<>>, Keys, NoVisitors),
   Input(TRUE, FALSE, FALSE, TRUE, <<>>, Keys, NoVisitors),
   Input(TRUE, FALSE, TRUE, FALSE, <<>>, Keys, NoVisitors)}
  \cup {Input(TRUE, FALSE, TRUE, TRUE, ast, enabled, visitors) :
          ast \in Asts, enabled \in SUBSET Keys, visitors \in [Keys -> CandidateVisitors]}

Slots == 1..MaxPending

\* The last provideCodeActions call that has settled: what it found, the
\* labels it found, what it gave back, and whether another call was pending.
NoDiscovery ==
  [done |-> FALSE, slot |-> 0,
   input |-> Input(TRUE, FALSE, TRUE, TRUE, <<>>, Keys, NoVisitors),
   preMessage |-> InitialMessage, concurrent |-> FALSE,
   rejected |-> FALSE, actions |-> <<>>, applicable |-> <<>>, threw |-> FALSE]

providerIdle ==
  /\ matching = NoMatching
  /\ message = InitialMessage
  /\ pending = [c \in Slots |-> "idle"]
  /\ discovery = NoDiscovery
  /\ panelIdle

editorIdle ==
  /\ codeMatrix = <<<<>>>>
  /\ selection = cursorAt(0, 0)
  /\ document = <<>>
  /\ editorSelection = cursorAt(0, 0)
  /\ call = NoCall
  /\ posIdle
  /\ highlights = <<>>
  /\ panelIdle

editorVars == <<codeMatrix, selection, document, editorSelection, call, posA, posB, posResult,
                highlights, panelVars>>

(***************************************************************************)
(* The in-memory editor alone.                                             *)
(***************************************************************************)
Init ==
  /\ \E text \in PlainTexts :
       LET e == newInMemoryEditor(text, Position(0, 0))
       IN /\ codeMatrix = e.codeMatrix
          /\ selection = e.selection
          /\ call = [NoCall EXCEPT !.op = "new", !.text = text]
  /\ document = <<>>
  /\ editorSelection = cursorAt(0, 0)
  /\ posIdle
  /\ highlights = <<>>
  /\ providerIdle

Write ==
  /\ idle
  /\ \E text \in PlainTexts, cursor \in {NoPosition, Position(0, 1)} :
       LET r == inMemoryWrite(codeMatrix, selection, text, cursor)
       IN /\ codeMatrix' = r.codeMatrix
          /\ selection' = r.selection
          /\ call' = [before("write") EXCEPT !.text = text,
                                             !.newCursorPosition = cursor]
  /\ UNCHANGED <<document, editorSelection, posA, posB, posResult>>
  /\ UNCHANGED <<highlights, providerVars>>

ReadThenWrite ==
  /\ idle
  /\ \E input \in readThenWriteInputs(code) :
       LET selectionArg == input[1]
           returned == input[2]
           cursor == input[3]
           r == inMemoryReadThenWrite(codeMatrix, selection, selectionArg,
                                      returned, cursor)
       IN /\ Len(read(r.codeMatrix)) <= MaxCode
          /\ \A i \in 1..Len(r.codeMatrix) : Len(r.codeMatrix[i]) <= MaxCells
          /\ codeMatrix' = r.codeMatrix
          /\ selection' = r.selection
          /\ call' = [before("readThenWrite") EXCEPT
                        !.selectionArg = selectionArg, !.returned = returned,
                        !.newCursorPosition = cursor, !.readCode = r.readCode,
                        !.atInvoke = r.atInvoke, !.threw = r.threw]
  /\ UNCHANGED <<document, editorSelection, posA, posB, posResult>>
  /\ UNCHANGED <<highlights, providerVars>>

RemoveLine ==
  /\ idle
  /\ \E line \in 0..(Len(codeMatrix) - 1) :
       /\ codeMatrix' = removeLine(codeMatrix, line)
       /\ call' = [before("removeLine") EXCEPT !.line = line]
  /\ UNCHANGED <<selection, document, editorSelection, posA, posB, posResult>>
  /\ UNCHANGED <<highlights, providerVars>>

MoveCursorTo ==
  /\ idle
  /\ \E position \in {Position(0, 0), Position(0, 1)} :
       /\ selection' = moveCursorTo(position)
       /\ call' = [before("moveCursorTo") EXCEPT !.newCursorPosition = position]
  /\ UNCHANGED <<codeMatrix, document, editorSelection, posA, posB, posResult>>
  /\ UNCHANGED <<highlights, providerVars>>

Settle ==
  /\ ~idle
  /\ call' = NoCall
  /\ UNCHANGED <<codeMatrix, selection, document, editorSelection, posA, posB, posResult>>
  /\ UNCHANGED <<highlights, providerVars>>

Next == Write \/ ReadThenWrite \/ RemoveLine \/ MoveCursorTo \/ Settle

Spec == Init /\ [][Next]_vars

(***************************************************************************)
(* The two editors side by side: both are built over the same text with    *)
(* the same selection, and each call is made on both with the same         *)
(* arguments.  readThenWrite is made while both hold the same code, so     *)
(* that its arguments are in bounds for both.                              *)
(***************************************************************************)
InitEditors ==
  /\ \E text \in Fixtures, position \in CursorPositions :
       LET e == newInMemoryEditor(text, position)
       IN /\ codeMatrix = e.codeMatrix
          /\ selection = e.selection
          /\ document = read(e.codeMatrix)
          /\ editorSelection = e.selection
          /\ call = [NoCall EXCEPT !.op = "new", !.text = text,
                                   !.newCursorPosition = position]
  /\ posIdle
  /\ highlights = <<>>
  /\ providerIdle

EditorsWrite ==
  /\ idle
  /\ \E text \in PlainTexts, cursor \in {NoPosition} \cup CursorPositions :
       LET m == inMemoryWrite(codeMatrix, selection, text, cursor)
           v == vscodeWrite(document, editorSelection, text, cursor)
       IN /\ codeMatrix' = m.codeMatrix
          /\ selection' = m.selection
          /\ document' = v.document
          /\ editorSelection' = v.editorSelection
          /\ call' = [before("write") EXCEPT !.text = text,
                                             !.newCursorPosition = cursor]
  /\ UNCHANGED <<posA, posB, posResult>>
  /\ UNCHANGED <<highlights, providerVars>>

\* The (selection, outcome of getModifications) pairs of a call made on both
\* editors: the selection of the whole text, with a getModifications that
\* throws, returns nothing, or returns one Modification replacing the text it
\* was given.
editorsInputs(text) ==
  {wholeText(text)}
    \X ({Throws, Returns(<<>>)}
          \cup {Returns(<<[code |-> c, selection |-> wholeText(text)]>>) :
                  c \in Replacements})

EditorsReadThenWrite ==
  /\ idle
  /\ document = code
  /\ \E input \in editorsInputs(code), cursor \in {NoPosition} \cup CursorPositions :
       LET selectionArg == input[1]
           returned == input[2]
           m == inMemoryReadThenWrite(codeMatrix, selection, selectionArg,
                                      returned, cursor)
           v == vscodeReadThenWrite(document, editorSelection, selectionArg,
                                    returned, cursor)
       IN /\ Len(read(m.codeMatrix)) <= MaxCode
          /\ \A i \in 1..Len(m.codeMatrix) : Len(m.codeMatrix[i]) <= MaxCells
          /\ codeMatrix' = m.codeMatrix
          /\ selection' = m.selection
          /\ document' = v.document
          /\ editorSelection' = v.editorSelection
          /\ call' = [before("readThenWrite") EXCEPT
                        !.selectionArg = selectionArg, !.returned = returned,
                        !.newCursorPosition = cursor, !.readCode = m.readCode,
                        !.atInvoke = m.atInvoke, !.threw = m.threw,
                        !.vsReadCode = v.readCode, !.vsAtInvoke = v.atInvoke,
                        !.vsThrew = v.threw]
  /\ UNCHANGED <<posA, posB, posResult>>
  /\ UNCHANGED <<highlights, providerVars>>

EditorsMoveCursorTo ==
  /\ idle
  /\ \E position \in CursorPositions :
       /\ selection' = moveCursorTo(position)
       /\ editorSelection' = vscodeMoveCursorTo(position)
       /\ call' = [before("moveCursorTo") EXCEPT !.newCursorPosition = position]
  /\ UNCHANGED <<codeMatrix, document, posA, posB, posResult>>
  /\ UNCHANGED <<highlights, providerVars>>

NextEditors == EditorsWrite \/ EditorsReadThenWrite \/ EditorsMoveCursorTo \/ Settle

SpecEditors == InitEditors /\ [][NextEditors]_vars

(***************************************************************************)
(* Position comparisons on every pair of Positions of a grid.              *)
(***************************************************************************)
GridPositions == {Position(l, c) : l \in 0..MaxCoord, c \in 0..MaxCoord}

InitPosition ==
  /\ posA \in GridPositions
  /\ posB \in GridPositions
  /\ posResult = NoResult
  /\ codeMatrix = <<<<>>>>
  /\ selection = cursorAt(0, 0)
  /\ document = <<>>
  /\ editorSelection = cursorAt(0, 0)
  /\ call = NoCall
  /\ highlights = <<>>
  /\ providerIdle

ComparePositions ==
  /\ ~posResult.done
  /\ posResult' = [done |-> TRUE,
                   aBeforeB |-> isBefore(posA, posB),
                   equal |-> isEqualTo(posA, posB),
                   bBeforeA |-> isBefore(posB, posA)]
  /\ UNCHANGED <<posA, posB, codeMatrix, selection, document, editorSelection, call>>
  /\ UNCHANGED <<highlights, providerVars>>

NextPosition == ComparePositions

SpecPosition == InitPosition /\ [][NextPosition]_vars

(***************************************************************************)
(* The visitor matcher on every visitor and node type of the bounds.       *)
(***************************************************************************)
InitMatcher ==
  /\ \E visitor \in Visitors, nodeType \in NodeTypes :
       matching = [NoMatching EXCEPT !.visitor = visitor, !.nodeType = nodeType]
  /\ message = InitialMessage
  /\ pending = [c \in Slots |-> "idle"]
  /\ discovery = NoDiscovery
  /\ editorIdle

VisitNode ==
  /\ ~matching.visited
  /\ matching' = [matching EXCEPT !.visited = TRUE,
                                  !.resolved = getVisitorNode(matching.visitor, matching.nodeType),
                                  !.invoked = visit(matching.visitor, matching.nodeType)]
  /\ UNCHANGED <<message, pending, discovery, editorVars>>

NextMatcher == VisitNode

SpecMatcher == InitMatcher /\ [][NextMatcher]_vars

(***************************************************************************)
(* The action provider: provideCodeActions calls that overlap.  A call     *)
(* suspends once, on isNavigatingAnIgnoredFile; what follows the await     *)
(* runs without suspension, reads the active editor and returns.           *)
(***************************************************************************)
InitProvider ==
  /\ matching = NoMatching
  /\ message = InitialMessage
  /\ pending = [c \in Slots |-> "idle"]
  /\ discovery = NoDiscovery
  /\ editorIdle

\* Lines 21-24: the call is made and awaits isNavigatingAnIgnoredFile.
ProvideCodeActions ==
  \E c \in Slots :
    /\ ~discovery.done
    /\ pending[c] = "idle"
    /\ pending' = [pending EXCEPT ![c] = "awaiting"]
    /\ UNCHANGED <<matching, message, discovery, editorVars>>

\* Lines 24-38: the await settles and the call runs to its return.
AfterAwait ==
  \E c \in Slots, input \in Inputs :
    /\ ~discovery.done
    /\ pending[c] = "awaiting"
    /\ LET out == provideCodeActions(input, stale(message))
       IN /\ message' = out.message
          /\ discovery' = [done |-> TRUE, slot |-> c, input |-> input,
                           preMessage |-> stale(message),
                           concurrent |-> \E d \in Slots : d # c /\ pending[d] = "awaiting",
                           rejected |-> out.rejected, actions |-> out.actions,
                           applicable |-> out.applicable, threw |-> out.threw]
    /\ pending' = [pending EXCEPT ![c] = "idle"]
    /\ UNCHANGED <<matching, editorVars>>

\* The caller takes what the call gave back.
Deliver ==
  /\ discovery.done
  /\ discovery' = NoDiscovery
  /\ UNCHANGED <<matching, message, pending, editorVars>>

NextProvider == ProvideCodeActions \/ AfterAwait \/ Deliver

SpecProvider == InitProvider /\ [][NextProvider]_vars

(***************************************************************************)
(* Construction of an in-memory editor from a fixture: the state before    *)
(* the constructor body is the one of the field initializers.              *)
(***************************************************************************)
MaxTokens == 3

TokenFixtures == {concat(parts) : parts \in textsOver(FixtureTokens, MaxTokens)}

InitFixture ==
  /\ \E text \in TokenFixtures, position \in CursorPositions :
       call = [NoCall EXCEPT !.op = "constructing", !.text = text,
                             !.newCursorPosition = position]
  /\ codeMatrix = <<>>
  /\ selection = cursorAt(0, 0)
  /\ document = <<>>
  /\ editorSelection = cursorAt(0, 0)
  /\ posIdle
  /\ highlights = <<>>
  /\ providerIdle

\* The constructor body (lines 56-59).
Construct ==
  /\ call.op = "constructing"
  /\ LET e == newInMemoryEditor(call.text, call.newCursorPosition)
     IN /\ codeMatrix' = e.codeMatrix
        /\ selection' = e.selection
  /\ call' = [call EXCEPT !.op = "new"]
  /\ UNCHANGED <<document, editorSelection, posA, posB, posResult, highlights, providerVars>>

NextFixture == Construct

SpecFixture == InitFixture /\ [][NextFixture]_vars

(***************************************************************************)
(* Highlights registered on a freshly built in-memory editor.              *)
(***************************************************************************)
MaxHighlights == 2

InitHighlight ==
  /\ \E text \in PlainTexts :
       LET e == newInMemoryEditor(text, Position(0, 0))
       IN /\ codeMatrix = e.codeMatrix
          /\ selection = e.selection
          /\ call = [NoCall EXCEPT !.op = "new", !.text = text]
  /\ document = <<>>
  /\ editorSelection = cursorAt(0, 0)
  /\ posIdle
  /\ highlights = <<>>
  /\ providerIdle

\* highlight(selections) with an array of in-bounds Selections.
HighlightSelections ==
  \E n \in 1..MaxHighlights :
    \E selections \in [1..n -> selectionsOf(code)] :
      /\ Len(highlights) + n <= MaxHighlights
      /\ LET groups == {highlights[i].group : i \in 1..Len(highlights)}
             group == CHOOSE g \in 1..MaxHighlights : g \notin groups
         IN highlights' = highlight(highlights, selections, group)
      /\ UNCHANGED <<codeMatrix, selection, document, editorSelection, call,
                     posA, posB, posResult, providerVars>>

\* removeHighlight(selections) with an array given to highlight before.
RemoveHighlight ==
  \E i \in 1..Len(highlights) :
    /\ highlights' = removeHighlight(highlights, highlights[i].group)
    /\ UNCHANGED <<codeMatrix, selection, document, editorSelection, call,
                   posA, posB, posResult, providerVars>>

NextHighlight == HighlightSelections \/ RemoveHighlight

SpecHighlight == InitHighlight /\ [][NextHighlight]_vars

(***************************************************************************)
(* Highlights on an in-memory editor that is edited: write, readThenWrite, *)
(* highlight and removeHighlight calls in any order, and reads of          *)
(* highlightedCode.  A highlight is registered for a Selection of the code *)
(* the editor holds at that moment.                                        *)
(***************************************************************************)
HighlightedWrite ==
  /\ idle
  /\ \E text \in PlainTexts :
       LET r == inMemoryWrite(codeMatrix, selection, text, NoPosition)
       IN /\ codeMatrix' = r.codeMatrix
          /\ selection' = r.selection
          /\ call' = [before("write") EXCEPT !.text = text]
  /\ UNCHANGED <<document, editorSelection, posA, posB, posResult, highlights, providerVars>>

HighlightedReadThenWrite ==
  /\ idle
  /\ \E input \in editorsInputs(code) :
       LET r == inMemoryReadThenWrite(codeMatrix, selection, input[1], input[2], NoPosition)
       IN /\ Len(read(r.codeMatrix)) <= MaxCode
          /\ \A i \in 1..Len(r.codeMatrix) : Len(r.codeMatrix[i]) <= MaxCells
          /\ codeMatrix' = r.codeMatrix
          /\ selection' = r.selection
          /\ call' = [before("readThenWrite") EXCEPT
                        !.selectionArg = input[1], !.returned = input[2],
                        !.readCode = r.readCode, !.atInvoke = r.atInvoke,
                        !.threw = r.threw]
  /\ UNCHANGED <<document, editorSelection, posA, posB, posResult, highlights, providerVars>>

\* highlight([selection]) while nothing is highlighted.
HighlightOne ==
  /\ idle
  /\ highlights = <<>>
  /\ \E sel \in selectionsOf(code) :
       highlights' = highlight(highlights, <<sel>>, 1)
  /\ UNCHANGED <<codeMatrix, selection, document, editorSelection, call,
                 posA, posB, posResult, providerVars>>

RemoveHighlightOne ==
  /\ idle
  /\ RemoveHighlight

\* The highlightedCode getter (lines 69-71): map and flatMap build new
\* arrays, the matrix of the editor is not written.
ReadHighlightedCode ==
  /\ idle
  /\ call' = [before("highlightedCode") EXCEPT !.text = highlightedCode]
  /\ UNCHANGED <<codeMatrix, selection, document, editorSelection,
                 posA, posB, posResult, highlights, providerVars>>

NextHighlighted ==
  \/ HighlightedWrite
  \/ HighlightedReadThenWrite
  \/ HighlightOne
  \/ RemoveHighlightOne
  \/ ReadHighlightedCode
  \/ Settle

SpecHighlighted == InitHighlight /\ [][NextHighlighted]_vars

(***************************************************************************)
(* askForPositions calls, messages of the webviews, completions of         *)
(* onConfirm, panels closed by the user and dispose callbacks, in any      *)
(* order.                                                                  *)
(***************************************************************************)
InitPanel ==
  /\ panelIdle
  /\ matching = NoMatching
  /\ message = InitialMessage
  /\ pending = [c \in Slots |-> "idle"]
  /\ discovery = NoDiscovery
  /\ codeMatrix = <<<<>>>>
  /\ selection = cursorAt(0, 0)
  /\ document = <<>>
  /\ editorSelection = cursorAt(0, 0)
  /\ call = NoCall
  /\ posIdle
  /\ highlights = <<>>

otherThanPanel == <<codeMatrix, selection, document, editorSelection, call, posA, posB,
                    posResult, highlights, matching, message, pending, discovery>>

AskForPositions ==
  /\ Cardinality(created(panels)) < MaxPanels
  /\ \E deferred \in BOOLEAN :
       LET s == askForPositions(Panels(panel, panels), deferred)
       IN /\ panel' = s.panel
          /\ panels' = s.panels
          /\ panelEvent' = PanelEvent("askForPositions", 0,
                                      IF panel # 0 /\ panels[panel].state = "open"
                                      THEN panel ELSE 0, 0)
  /\ UNCHANGED otherThanPanel

\* The webview of an open panel posts a message.
ReceiveMessage ==
  /\ \E p \in PanelIds :
       /\ panels[p].state = "open"
       /\ ~panels[p].confirming
       /\ LET s == onDidReceiveMessage(Panels(panel, panels), p)
          IN /\ panel' = s.panel
             /\ panels' = s.panels
             /\ panelEvent' = PanelEvent("message", p, 0, 0)
  /\ UNCHANGED otherThanPanel

\* onConfirm resolves and the message callback goes on.
ConfirmResolves ==
  /\ \E p \in PanelIds, deferred \in BOOLEAN :
       /\ panels[p].confirming
       /\ LET s == afterConfirm(Panels(panel, panels), p, deferred)
          IN /\ panel' = s.panel
             /\ panels' = s.panels
             /\ panelEvent' = PanelEvent("confirmed", p,
                                         IF panel # 0 /\ panels[panel].state = "open"
                                         THEN panel ELSE 0, panel)
  /\ UNCHANGED otherThanPanel

\* onConfirm rejects: the message callback ends at its await.
ConfirmRejects ==
  /\ \E p \in PanelIds :
       /\ panels[p].confirming
       /\ panels' = [panels EXCEPT ![p].confirming = FALSE]
       /\ panelEvent' = PanelEvent("rejected", p, 0, 0)
  /\ UNCHANGED <<panel, otherThanPanel>>

\* The user closes an open panel: the host disposes it.
UserCloses ==
  /\ \E p \in PanelIds, deferred \in BOOLEAN :
       /\ panels[p].state = "open"
       /\ LET s == dispose(Panels(panel, panels), p, deferred)
          IN /\ panel' = s.panel
             /\ panels' = s.panels
             /\ panelEvent' = PanelEvent("closed", 0, p, 0)
  /\ UNCHANGED otherThanPanel

\* The host calls an onDidDispose listener it had yet to call.
DisposeCallback ==
  /\ \E p \in PanelIds :
       /\ panels[p].callback
       /\ LET s == onDidDispose(Panels(panel, panels), p)
          IN /\ panel' = s.panel
             /\ panels' = s.panels
             /\ panelEvent' = PanelEvent("disposed", p, 0, panel)
  /\ UNCHANGED otherThanPanel

NextPanel ==
  \/ AskForPositions
  \/ ReceiveMessage
  \/ ConfirmResolves
  \/ ConfirmRejects
  \/ UserCloses
  \/ DisposeCallback

SpecPanel == InitPanel /\ [][NextPanel]_vars

(***************************************************************************)
(* Claims on the in-memory editor, checked under Spec.                     *)
(***************************************************************************)
\* getModifications was invoked by the last readThenWrite and returned.
committed ==
  /\ call.op = "readThenWrite"
  /\ call.threw # "read"
  /\ ~call.returned.throws

\* The matrix a fresh editor holds for a text without markers.
matrixOf(text) == [i \in 1..Len(split(text)) |-> splitChars(split(text)[i])]

\* The orders in which getModifications may return the same Modifications.
permutationsOf(seq) ==
  {p \in [1..Len(seq) -> {seq[i] : i \in 1..Len(seq)}] :
     \A i, j \in 1..Len(seq) : i # j => p[i] # p[j]}

\* C1: after a readThenWrite whose getModifications returned in-bounds,
\* pairwise non-overlapping Modifications, the code is the code before the
\* call with each range replaced by its replacement text.
C1_CodeIsSplicedOriginal ==
  committed => code = spliced(call.preCode, call.returned.modifications)

\* C2: the matrix has one line per line of the code, and line i of the matrix
\* holds the characters of line i of the code, one per element.
C2_MatrixMatchesCode == codeMatrix = matrixOf(code)

\* C3: the code after readThenWrite is the same for every order in which the
\* Modifications are returned, and equals the splice in document order.
C3_OrderIndependent ==
  committed =>
    \A p \in permutationsOf(call.returned.modifications) :
      /\ read(commit(call.preCodeMatrix, p).matrix) = code
      /\ code = spliced(call.preCode, p)

\* C4: a readThenWrite whose getModifications returns no Modifications leaves
\* the code unchanged, for any buffer state and any in-bounds selection.
C4_NoModificationsNoChange ==
  (call.op = "readThenWrite" /\ call.returned = Returns(<<>>)) => code = call.preCode

\* C4 witness: such a call on a non-empty buffer whose matrix an earlier edit
\* left with a deleted line, reading a non-empty selection.
C4_Witness ==
  /\ call.op = "readThenWrite"
  /\ call.returned = Returns(<<>>)
  /\ call.threw = ""
  /\ call.preCode # <<>>
  /\ call.selectionArg.start # call.selectionArg.end
  /\ \E i \in 1..Len(codeMatrix) : codeMatrix[i] = <<DELETED_LINE>>

\* C8: the text handed to getModifications is the substring of the code that
\* the selection delimits.
C8_ReadsSelectedText ==
  (call.op = "readThenWrite" /\ call.threw # "read") =>
    call.readCode = substring(call.preCode, call.selectionArg)

(***************************************************************************)
(* Claims on the cursor and the selection, checked under SpecEditors.      *)
(***************************************************************************)
\* The last call was a readThenWrite that returned normally on both editors.
readThenWriteReturned ==
  /\ call.op = "readThenWrite"
  /\ call.threw = ""
  /\ call.vsThrew = ""

notAfter(p, q) == p.line < q.line \/ (p.line = q.line /\ p.character <= q.character)

C6_CursorMovesAfterCommit ==
  (call.op = "readThenWrite" /\ call.threw # "read") =>
    /\ call.atInvoke = call.preSelection
    /\ call.vsAtInvoke = call.preEditorSelection
    /\ call.returned.throws =>
         /\ code = call.preCode
         /\ selection = call.preSelection
         /\ document = call.preDocument
         /\ editorSelection = call.preEditorSelection

\* C7: from the same code and the same selection, the same write or
\* readThenWrite call leaves both editors with the same selection: the one
\* they had without newCursorPosition, a cursor at it with newCursorPosition.
C7_EditorsAgreeOnSelection ==
  ( /\ call.op \in {"write", "readThenWrite"}
    /\ call.threw = ""
    /\ call.vsThrew = ""
    /\ call.preCode = call.preDocument
    /\ call.preSelection = call.preEditorSelection ) =>
    /\ selection = editorSelection
    /\ call.newCursorPosition # NoPosition =>
         selection = Selection(call.newCursorPosition, call.newCursorPosition)

exactlyOne(x, y, z) == (x /\ ~y /\ ~z) \/ (~x /\ y /\ ~z) \/ (~x /\ ~y /\ z)

\* C9 as stated: for all Positions a and b exactly one of a.isBefore(b),
\* a.isEqualTo(b), b.isBefore(a) holds.
C9_ExactlyOne ==
  posResult.done => exactlyOne(posResult.aBeforeB, posResult.equal, posResult.bBeforeA)

\* C9 amended: for different Positions a and b exactly one of a.isBefore(b),
\* a.isEqualTo(b), b.isBefore(a) holds, and it is the one the line/character
\* order gives; for the same Position all three hold.
C9_ExactlyOneUnlessEqual ==
  posResult.done =>
    /\ posResult.equal <=> posA = posB
    /\ posA # posB =>
         /\ exactlyOne(posResult.aBeforeB, posResult.equal, posResult.bBeforeA)
         /\ posResult.aBeforeB <=> notAfter(posA, posB)
    /\ posA = posB => posResult.aBeforeB /\ posResult.equal /\ posResult.bBeforeA

\* C9 witness: the comparison of a Position with itself, off the origin.
C9_Witness ==
  /\ posResult.done
  /\ posA = posB
  /\ posA # Position(0, 0)

(***************************************************************************)
(* Claims on refactoring discovery, checked under SpecProvider.            *)
(***************************************************************************)
\* The call went as far as traversing the tree.
traversed == discovery.done /\ discovery.input.readable /\ ~discovery.input.ignored
             /\ discovery.input.hasEditor /\ discovery.input.parses

\* The visitor of a refactoring calls the completion callback on this node.
claimsAt(input, key, n) ==
  \E i \in 1..Len(visit(input.visitors[key], input.ast[n])) :
    visit(input.visitors[key], input.ast[n])[i].does = "claim"

throwsAt(input, key, n) ==
  \E i \in 1..Len(visit(input.visitors[key], input.ast[n])) :
    visit(input.visitors[key], input.ast[n])[i].does = "throw"

claimedNodes(input, key) == {n \in 1..Len(input.ast) : claimsAt(input, key, n)}

indexOfKey(key) == CHOOSE i \in 1..Len(refactorings) : refactorings[i].key = key

\* The traversal step of the first claim of a refactoring: nodes in traversal
\* order, and on one node the refactorings in the order of the list.
firstClaim(input, key) ==
  LET n == CHOOSE m \in claimedNodes(input, key) : \A o \in claimedNodes(input, key) : m <= o
  IN n * (Len(refactorings) + 1) + indexOfKey(key)

\* C11: findApplicableRefactorings returns each refactoring at most once,
\* returns exactly the enabled refactorings whose completion callback was
\* invoked at least once during the traversal, and orders them by the
\* traversal step at which each was first claimed.
C11_DeduplicatedInFirstClaimedOrder ==
  (traversed /\ ~discovery.threw) =>
    LET app == discovery.applicable
        input == discovery.input
    IN /\ \A i, j \in 1..Len(app) : i # j => app[i] # app[j]
       /\ {app[i] : i \in 1..Len(app)}
            = {k \in input.enabled : claimedNodes(input, k) # {}}
       /\ \A i, j \in 1..Len(app) :
            i < j => firstClaim(input, app[i]) < firstClaim(input, app[j])

\* C11 witness: the second refactoring of the list is claimed on both nodes,
\* the first one on the second node only, and both are returned.
C11_Witness ==
  /\ traversed
  /\ discovery.applicable = <<"k2", "k1">>
  /\ claimedNodes(discovery.input, "k2") = {1, 2}
  /\ claimedNodes(discovery.input, "k1") = {2}

\* C12: when the visitor of one candidate throws at some node, the result
\* still contains every other refactoring that claims a node.
C12_ThrowingCandidateIsSkipped ==
  traversed =>
    \A t \in discovery.input.enabled :
      (\E n \in 1..Len(discovery.input.ast) : throwsAt(discovery.input, t, n)) =>
        \A k \in discovery.input.enabled \ {t} :
          claimedNodes(discovery.input, k) # {} =>
            \E i \in 1..Len(discovery.actions) : discovery.actions[i].command = k

\* C13: when parsing the code fails, provideCodeActions returns an empty list
\* of actions and its promise is not rejected.
C13_ParseFailureGivesNoAction ==
  (discovery.done /\ discovery.input.readable /\ ~discovery.input.ignored
   /\ discovery.input.hasEditor /\ ~discovery.input.parses) =>
    /\ ~discovery.rejected
    /\ discovery.actions = <<>>

\* C13 witness: a call that got to parsing, on code that does not parse.
C13_Witness ==
  /\ discovery.done
  /\ discovery.input.readable /\ ~discovery.input.ignored /\ discovery.input.hasEditor
  /\ ~discovery.input.parses
  /\ discovery.threw

\* C14: the label on the code action of every returned refactoring that has
\* updateMessage was computed by updateMessage during the same call (from
\* the last node that call's visitor claimed), whatever labels earlier or
\* concurrently pending calls left on the descriptor.
C14_LabelComputedInSameCall ==
  discovery.done =>
    \A i \in 1..Len(discovery.actions) :
      LET action == discovery.actions[i]
          nodes == claimedNodes(discovery.input, action.command)
      IN refactoringOf(action.command).hasUpdateMessage =>
           /\ action.title.current
           /\ nodes # {}
           /\ action.title.text
                = discovery.input.ast[CHOOSE n \in nodes : \A m \in nodes : m <= n]

\* C14 witness: a call returns an action for the refactoring with
\* updateMessage while another call is pending and the descriptor still
\* carries the label of an earlier call on another node.
C14_Witness ==
  /\ discovery.done
  /\ discovery.concurrent
  /\ \E i \in 1..Len(discovery.actions) :
       /\ discovery.actions[i].command = "k1"
       /\ discovery.preMessage["k1"].text # "static"
       /\ discovery.preMessage["k1"].text # discovery.actions[i].title.text

declares(visitor, key) == \E i \in 1..Len(visitor) : visitor[i].key = key

\* The first key, in declaration order, that isType holds for ("" if none).
firstKeyOfType(visitor, nodeType) ==
  IF \E i \in 1..Len(visitor) : isType(nodeType, visitor[i].key)
  THEN visitor[CHOOSE i \in 1..Len(visitor) :
                 /\ isType(nodeType, visitor[i].key)
                 /\ \A j \in 1..(i - 1) : ~isType(nodeType, visitor[j].key)].key
  ELSE ""

\* The callbacks called on the node apart from the visitor's own enter.
entryInvocations == SelectSeq(matching.invoked, LAMBDA c : c.key # "enter")

\* C16 as stated: the entry resolved for a node is the one keyed by the
\* node's concrete type whenever the visitor declares that key, otherwise
\* the one of the first key in declaration order that isType holds for; the
\* callbacks called are those of that one entry.
C16_ResolvesDeclaredType ==
  matching.visited =>
    LET key == IF declares(matching.visitor, matching.nodeType)
               THEN matching.nodeType
               ELSE firstKeyOfType(matching.visitor, matching.nodeType)
    IN /\ matching.resolved.key = key
       /\ \A i \in 1..Len(entryInvocations) : entryInvocations[i].key = key

\* C16 amended: the entry resolved is the one keyed by the node's concrete
\* type whenever the visitor has a truthy value under that key, otherwise
\* the one of the first key in declaration order that isType holds for; the
\* callbacks called are those of that one entry.
C16_ResolvesTruthyType ==
  matching.visited =>
    LET key == IF truthy(lookup(matching.visitor, matching.nodeType))
               THEN matching.nodeType
               ELSE firstKeyOfType(matching.visitor, matching.nodeType)
    IN /\ matching.resolved.key = key
       /\ matching.resolved.value = lookup(matching.visitor, key)
       /\ \A i \in 1..Len(entryInvocations) : entryInvocations[i].key = key

\* C16 witness: the visitor declares a category of the node with a function
\* and, after it, the node's type with undefined; the category is resolved.
C16_Witness ==
  /\ matching.visited
  /\ Len(matching.visitor) = 2
  /\ matching.visitor[1].key \in aliasesOf(matching.nodeType)
  /\ matching.visitor[1].value.kind = "function"
  /\ matching.visitor[2].key = matching.nodeType
  /\ ~truthy(matching.visitor[2].value)
  /\ Len(matching.invoked) = 1

noKeyOfType == \A i \in 1..Len(matching.visitor) :
                 ~isType(matching.nodeType, matching.visitor[i].key)

\* C17 as stated: when no key of the visitor equals the node's type or names
\* a supertype of it, or the resolved entry is neither a function nor an
\* object, visiting the node calls no callback of the visitor.
C17_NoMatchInvokesNothing ==
  (matching.visited
   /\ (noKeyOfType \/ matching.resolved.value.kind \notin {"function", "object"})) =>
    matching.invoked = <<>>

\* C17 amended: in those cases visiting the node calls no callback of the
\* visitor other than the visitor's own enter, which is called once when it
\* is a function.
C17_NoMatchInvokesOnlyEnter ==
  (matching.visited
   /\ (noKeyOfType \/ matching.resolved.value.kind \notin {"function", "object"})) =>
    matching.invoked
      = IF lookup(matching.visitor, "enter").kind = "function"
        THEN <<Invocation("enter", "", lookup(matching.visitor, "enter").does)>>
        ELSE <<>>

\* C17 witness: a visitor with an enter function and a key that is no type
\* of the node.
C17_Witness ==
  /\ matching.visited
  /\ noKeyOfType
  /\ Len(matching.visitor) = 2
  /\ lookup(matching.visitor, "enter").kind = "function"
  /\ matching.invoked # <<>>

(***************************************************************************)
(* Claims on fixture decoding, checked under SpecFixture.                  *)
(***************************************************************************)
\* Where a marker occurs in a text, as offsets.
occurrences(text, marker) ==
  {k \in 0..(Len(text) - Len(marker)) : SubSeq(text, k + 1, k + Len(marker)) = marker}

noSelectionMarker(text) ==
  occurrences(text, SELECTION_START) = {} /\ occurrences(text, SELECTION_END) = {}

firstOccurrence(text, marker) ==
  CHOOSE k \in occurrences(text, marker) : \A j \in occurrences(text, marker) : k <= j

\* C18: an editor constructed from a fixture with exactly one [cursor] marker
\* and no other marker has the fixture without the marker as its code and a
\* cursor at the line and character where the marker began.
C18_SingleCursorMarkerDecoded ==
  (call.op = "new" /\ Cardinality(occurrences(call.text, CURSOR)) = 1
   /\ noSelectionMarker(call.text)) =>
    LET k == firstOccurrence(call.text, CURSOR)
    IN /\ code = SubSeq(call.text, 1, k)
                   \o SubSeq(call.text, k + Len(CURSOR) + 1, Len(call.text))
       /\ selection = cursorAtPosition(positionAt(call.text, k))

\* C18 witness: the marker is on the second line, after a character, and the
\* constructor was given another position.
C18_Witness ==
  /\ call.op = "new"
  /\ call.text = <<LINE_SEPARATOR, "a">> \o CURSOR
  /\ call.newCursorPosition = Position(0, 1)
  /\ selection = cursorAt(1, 1)

\* C19: when the fixture has several [cursor] markers and no start or end
\* marker, the selection is a cursor at the position of the first marker.
C19_FirstCursorMarkerWins ==
  (call.op = "new" /\ Cardinality(occurrences(call.text, CURSOR)) > 1
   /\ noSelectionMarker(call.text)) =>
    selection = cursorAtPosition(positionAt(call.text, firstOccurrence(call.text, CURSOR)))

(***************************************************************************)
(* Claims on highlights, checked under SpecHighlight.                      *)
(***************************************************************************)
\* The marker is an element of the highlighted line, with `character`
\* elements of the code before it.
markerAt(highlighted, position, marker) ==
  /\ position.line < Len(highlighted)
  /\ LET line == highlighted[position.line + 1]
         isMarker(i) == \E e \in 1..Len(highlights) :
                          line[i] \in {openMarker(highlights[e].index),
                                       closeMarker(highlights[e].index)}
     IN \E p \in 1..Len(line) :
          /\ line[p] = marker
          /\ Cardinality({i \in 1..(p - 1) : ~isMarker(i)}) = position.character

\* C20: for every Selection registered through highlight(), highlightedCode
\* has the open marker of its index at the selection's start and the close
\* marker of its index at the selection's end.
C20_EveryHighlightHasBothMarkers ==
  \A e \in 1..Len(highlights) :
    /\ markerAt(highlightCodeMatrix(codeMatrix, highlights),
                highlights[e].selection.start, openMarker(highlights[e].index))
    /\ markerAt(highlightCodeMatrix(codeMatrix, highlights),
                highlights[e].selection.end, closeMarker(highlights[e].index))

(***************************************************************************)
(* Claims on highlightedCode of an edited editor, checked under            *)
(* SpecHighlighted.                                                        *)
(***************************************************************************)
MarkerIndexes == 0..9

\* The length of the [hN] or [/hN] marker the text begins with, 0 if none.
markerLength(text) ==
  IF \E n \in MarkerIndexes : Len(text) >= 4 /\ SubSeq(text, 1, 4) = openMarker(n) THEN 4
  ELSE IF \E n \in MarkerIndexes : Len(text) >= 5 /\ SubSeq(text, 1, 5) = closeMarker(n) THEN 5
  ELSE 0

\* The text with all [hN] and [/hN] markers removed.
RECURSIVE stripMarkers(_)
stripMarkers(text) ==
  IF Len(text) = 0 THEN <<>>
  ELSE IF markerLength(text) > 0
  THEN stripMarkers(SubSeq(text, markerLength(text) + 1, Len(text)))
  ELSE <<text[1]>> \o stripMarkers(Tail(text))

\* C21: reading highlightedCode leaves editor.code unchanged, and
\* highlightedCode with all [hN] and [/hN] markers removed equals editor.code.
C21_HighlightedCodeIsCode ==
  call.op = "highlightedCode" =>
    /\ code = call.preCode
    /\ stripMarkers(call.text) = code

(***************************************************************************)
(* Claims on the webview panel, checked under SpecPanel.                   *)
(***************************************************************************)
undisposed == {p \in PanelIds : panels[p].state = "open"}

\* C22: VSCodeEditor.panel is null or refers to the most recently created
\* panel that is not yet disposed, at most one created panel is undisposed,
\* and the completion of a confirm message received by an older panel never
\* disposes or clears a panel created after it.
C22_OnePanelAndOlderConfirmIsHarmless ==
  /\ panel = 0 \/ (panel \in undisposed /\ \A p \in undisposed : p <= panel)
  /\ Cardinality(undisposed) <= 1
  /\ panelEvent.op = "confirmed" =>
       /\ panelEvent.disposed <= panelEvent.handler
       /\ panelEvent.cleared <= panelEvent.handler

====
